---- MODULE Spec2Model ----
(***************************************************************************)
(* Lazy<T> of src/lib.rs: a single-threaded lazily initialised container.  *)
(*                                                                         *)
(* A cell is the pair (t, init) of the struct.  The program creates cells  *)
(* with new() and clone(), reads them with get() and fmt(), initialises    *)
(* them with get_or_create(f), and ends them with into_inner() or by       *)
(* letting them go out of scope.  get_or_create runs a caller-supplied     *)
(* closure f in the middle of its body, so it is split at that call: the   *)
(* closure may itself call any operation of any cell (reentrancy), may     *)
(* return a value, or may panic; a panic unwinds through the enclosing     *)
(* get_or_create calls until some caller catches it.                       *)
(***************************************************************************)
EXTENDS Integers, Sequences, FiniteSets

\* ------------------------------------------------------------- bounds
MaxCells  == 2     \* cells ever created (by new or clone)
MaxObjs   == 3     \* values of T ever produced (by an initializer or by T::clone)
MaxDepth  == 3     \* get_or_create calls in progress at once
MaxInvoke == 3     \* initializer invocations, over all cells

Cells == 1..MaxCells
Ids   == 1..MaxObjs
\* The contents a value of T may have: the two the tests use (NoCopy(3), 0).
Vals  == {0, 3}

VARIABLES
    life,       \* life[c]: "unborn", "live", or "gone" (consumed by into_inner, or dropped)
    lazy,       \* lazy[c]: the struct Lazy<T> of cell c, [t, init]
    stack,      \* the get_or_create calls whose initializer is running, outermost first
    panicking,  \* a panic is unwinding and has not been caught yet
    last,       \* the outcome of the most recent operation
    invoked,    \* invoked[c]: how many times an initializer was called for cell c
    writes,     \* writes[c]: how many times the slot of c was written by get_or_create
    stored,     \* stored[c]: the value objects ever placed in the slot of c
    drops,      \* drops[i]: how many times the destructor of value object i ran
    owned,      \* value objects moved out to the caller by into_inner
    nextId,     \* the next fresh value object
    aborted,    \* aborted[c]: initializer calls for cell c that exited by unwinding
    reinit,     \* reinit[c]: c was initialised by a call made from an initializer of c
    holder,     \* holder[c]: the thread that owns cell c
    users       \* users[c]: the threads that have owned cell c

vars == <<life, lazy, stack, panicking, last, invoked, writes, stored, drops, owned, nextId,
          aborted, reinit, holder, users>>

\* Which thread owns which cell.
thr == <<holder, users>>

\* The threads of a run: the one that starts the program and one it spawns.
Threads == {"main", "spawned"}

\* ------------------------------------------------------------- values
\* MaybeUninit::uninit(): the slot holds no T.
Uninit == [id |-> 0, v |-> 0]

\* A value of T: an object (identity id) with content v.
Obj(i, v) == [id |-> i, v |-> v]

\* Option<T>
None == << >>
Some(x) == <<x>>

\* T::clone(): a new object with the same content.
t_clone(o, i) == Obj(i, o.v)

\* MaybeUninit::assume_init_ref / assume_init_read: the slot read as a T.
assume_init(m) == m

\* ------------------------------------------------------------- Lazy<T>
\* (variant of new: the flag starts raised)
new_flagged == [t |-> Uninit, init |-> TRUE]

\* Lazy::new
new == [t |-> Uninit, init |-> FALSE]

\* (variant of get: the slot is read without looking at the flag)
get_unchecked(l) == Some(assume_init(l.t))

\* Lazy::get
get(l) == IF l.init THEN Some(assume_init(l.t)) ELSE None

\* (variant of into_inner: the slot is read without looking at the flag)
into_inner_unchecked(l) == Some(assume_init(l.t))

\* Lazy::into_inner: what it returns
into_inner(l) == IF l.init THEN Some(assume_init(l.t)) ELSE None

\* Debug for Lazy: write!(f, "Lazy({:?})", self.get())
fmt(l) == <<"Lazy(", IF get(l) = None THEN <<"None">> ELSE <<"Some(", get(l)[1].v, ")">>, ")">>

\* (variant of clone: the struct is copied byte for byte, T::clone is not called)
clone_bitwise(l, i) == l

\* Clone for Lazy; i is the identity of the object T::clone would produce
clone(l, i) ==
    IF get(l) # None
    THEN [t |-> t_clone(get(l)[1], i), init |-> TRUE]
    ELSE new

\* (variant of needs_init: the initializer is never run)
needs_init_never(l) == FALSE

\* (variant of needs_init: the initializer is run on every call)
needs_init_always(l) == TRUE

\* get_or_create, line 59: the initializer has to run
needs_init(l) == ~l.init

\* (variant of recursive: any get_or_create that ran its initializer faults)
recursive_always(l) == TRUE

\* (variant of recursive: the flag is not read again after f returns)
recursive_unchecked(l) == FALSE

\* get_or_create, line 62: f() modified self
recursive(l) == l.init

\* (variant of write_and_set: the flag is not set after the write)
write_only(l, o) == [t |-> o, init |-> l.init]

\* (variant of write_and_set: the flag is set but the slot is not written)
set_only(l, o) == [t |-> l.t, init |-> TRUE]

\* get_or_create, lines 71-75: self.minit().write(t); self.init.set(true)
write_and_set(l, o) == [t |-> o, init |-> TRUE]

\* get_or_create, line 78: the reference returned
deref(l) == assume_init(l.t)

\* ------------------------------------------------------------- bookkeeping
\* The record kept of the most recent operation.
\*   op      the operation; cell  the cell it was called on; made  the cell clone() created
\*   kind    "ok" (returned normally) or "panic"
\*   path    for get_or_create: "fast" (line 59 false) or "init" (the initializer ran)
\*   val     the Option / reference returned;  fval  the content the initializer returned
\*   fault   for a panic: "recursive" (line 64) or "init" (raised by an initializer)
\*   reent   the call's initializer called get_or_create on the same cell
\*   innerOk such a reentrant call returned normally
\*   text    what fmt wrote
\*   inInit  an initializer of a get_or_create on the cell was running when the
\*           operation was made (for a get_or_create that ran one: its own)
NoOutcome ==
    [op |-> "none", cell |-> 0, made |-> 0, kind |-> "ok", path |-> "", val |-> None,
     fval |-> 0, fault |-> "", reent |-> FALSE, innerOk |-> FALSE, text |-> << >>,
     inInit |-> FALSE]

\* A get_or_create call whose initializer is running.
Frame(c) == [cell |-> c, reent |-> FALSE, innerOk |-> FALSE]

Live(c) == life[c] = "live"

\* Normal code is executing: main when the stack is empty, else the initializer of
\* the innermost get_or_create.
Running == ~panicking

\* &self of cell c is held by a get_or_create in progress (one of the calls s), so
\* the cell can be neither moved (into_inner) nor dropped.
Borrowed_in(s, c) == \E i \in 1..Len(s) : s[i].cell = c

Borrowed(c) == Borrowed_in(stack, c)

Outcome(op, c, val) ==
    [NoOutcome EXCEPT !.op = op, !.cell = c, !.val = val, !.inInit = Borrowed(c)]

Top == stack[Len(stack)]
Pop == SubSeq(stack, 1, Len(stack) - 1)

\* The frames of cell c learn that get_or_create was called on c from within them.
MarkReent(s, c) ==
    [i \in 1..Len(s) |-> IF s[i].cell = c THEN [s[i] EXCEPT !.reent = TRUE] ELSE s[i]]

\* The frames of cell c learn that such a call returned normally.
MarkInnerOk(s, c) ==
    [i \in 1..Len(s) |-> IF s[i].cell = c THEN [s[i] EXCEPT !.innerOk = TRUE] ELSE s[i]]

\* The get_or_create calls on cell c whose initializer is running.
FramesOf(c) == Cardinality({i \in 1..Len(stack) : stack[i].cell = c})

\* Initializer calls counted for the cells up to n.
RECURSIVE InvokedUpTo(_)
InvokedUpTo(n) == IF n = 0 THEN 0 ELSE invoked[n] + InvokedUpTo(n - 1)

Invocations == InvokedUpTo(MaxCells)

\* The cell a new() or clone() result is bound to: the first unused one.
Fresh(d) == life[d] = "unborn" /\ \A e \in Cells : e < d => life[e] # "unborn"

\* The memory of a cell that no longer exists, and the history kept of it, are
\* not part of the state any more.
Forget(c) ==
    /\ lazy' = [lazy EXCEPT ![c] = new]
    /\ invoked' = [invoked EXCEPT ![c] = 0]
    /\ writes' = [writes EXCEPT ![c] = 0]
    /\ stored' = [stored EXCEPT ![c] = {}]
    /\ aborted' = [aborted EXCEPT ![c] = 0]
    /\ reinit' = [reinit EXCEPT ![c] = FALSE]
    /\ holder' = [holder EXCEPT ![c] = "main"]
    /\ users' = [users EXCEPT ![c] = {}]

Init ==
    /\ life = [c \in Cells |-> IF c = 1 THEN "live" ELSE "unborn"]
    /\ lazy = [c \in Cells |-> new]
    /\ stack = << >>
    /\ panicking = FALSE
    /\ last = Outcome("new", 1, None)
    /\ invoked = [c \in Cells |-> 0]
    /\ writes = [c \in Cells |-> 0]
    /\ stored = [c \in Cells |-> {}]
    /\ drops = [i \in Ids |-> 0]
    /\ owned = {}
    /\ nextId = 1
    /\ aborted = [c \in Cells |-> 0]
    /\ reinit = [c \in Cells |-> FALSE]
    /\ holder = [c \in Cells |-> "main"]
    /\ users = [c \in Cells |-> IF c = 1 THEN {"main"} ELSE {}]

\* ------------------------------------------------------------- operations
\* let d = Lazy::new();
New ==
    /\ Running
    /\ \E d \in Cells :
        /\ Fresh(d)
        /\ life' = [life EXCEPT ![d] = "live"]
        /\ lazy' = [lazy EXCEPT ![d] = new]
        /\ last' = Outcome("new", d, None)
        /\ holder' = [holder EXCEPT ![d] = "main"]
        /\ users' = [users EXCEPT ![d] = {"main"}]
    /\ UNCHANGED <<stack, panicking, invoked, writes, stored, drops, owned, nextId, aborted, reinit>>

\* (variant of Get: the value is taken out of the slot, as Option::take would)
Get_taking(c) ==
    /\ Running /\ Live(c)
    /\ last' = Outcome("get", c, get(lazy[c]))
    /\ lazy' = [lazy EXCEPT ![c] = new]
    /\ UNCHANGED <<life, stack, panicking, invoked, writes, stored, drops, owned, nextId, aborted, reinit, thr>>

\* c.get()
Get(c) ==
    /\ Running /\ Live(c)
    /\ last' = Outcome("get", c, get(lazy[c]))
    /\ UNCHANGED <<life, lazy, stack, panicking, invoked, writes, stored, drops, owned, nextId, aborted, reinit, thr>>

\* format!("{:?}", c)
Fmt(c) ==
    /\ Running /\ Live(c)
    /\ last' = [Outcome("fmt", c, None) EXCEPT !.text = fmt(lazy[c])]
    /\ UNCHANGED <<life, lazy, stack, panicking, invoked, writes, stored, drops, owned, nextId, aborted, reinit, thr>>

\* let d = c.clone();
Clone(c) ==
    /\ Running /\ Live(c)
    /\ lazy[c].init => nextId <= MaxObjs
    /\ \E d \in Cells :
        /\ Fresh(d)
        /\ life' = [life EXCEPT ![d] = "live"]
        /\ lazy' = [lazy EXCEPT ![d] = clone(lazy[c], nextId)]
        /\ stored' = [stored EXCEPT ![d] = IF lazy'[d].init THEN {lazy'[d].t} ELSE {}]
        /\ last' = [Outcome("clone", c, get(lazy'[d])) EXCEPT !.made = d]
        /\ holder' = [holder EXCEPT ![d] = holder[c]]
        /\ users' = [users EXCEPT ![d] = {holder[c]}]
    /\ nextId' = IF lazy[c].init THEN nextId + 1 ELSE nextId
    /\ UNCHANGED <<stack, panicking, invoked, writes, drops, owned, aborted, reinit>>

\* (variant of IntoInner: the struct drops the value in its slot as it goes, although
\* the value was read out for the caller)
IntoInner_dropping(c) ==
    /\ Running /\ Live(c) /\ ~Borrowed(c)
    /\ life' = [life EXCEPT ![c] = "gone"]
    /\ last' = Outcome("into_inner", c, into_inner(lazy[c]))
    /\ owned' = owned \cup {into_inner(lazy[c])[i] : i \in 1..Len(into_inner(lazy[c]))}
    /\ drops' = [i \in Ids |-> IF lazy[c].init /\ lazy[c].t.id = i THEN drops[i] + 1 ELSE drops[i]]
    /\ Forget(c)
    /\ UNCHANGED <<stack, panicking, nextId>>

\* c.into_inner(): self is taken by value; the value read out of the slot belongs to
\* the caller, and the struct is gone without any destructor running.
IntoInner(c) ==
    /\ Running /\ Live(c) /\ ~Borrowed(c)
    /\ life' = [life EXCEPT ![c] = "gone"]
    /\ last' = Outcome("into_inner", c, into_inner(lazy[c]))
    /\ owned' = owned \cup {into_inner(lazy[c])[i] : i \in 1..Len(into_inner(lazy[c]))}
    /\ Forget(c)
    /\ UNCHANGED <<stack, panicking, drops, nextId>>

\* drop(c), or c going out of scope.  Lazy<T> has no Drop impl and its only fields
\* are UnsafeCell<MaybeUninit<T>> and Cell<bool>: MaybeUninit never runs T's
\* destructor, so no destructor runs.
Drop(c) ==
    /\ Running /\ Live(c) /\ ~Borrowed(c)
    /\ life' = [life EXCEPT ![c] = "gone"]
    /\ last' = Outcome("drop", c, get(lazy[c]))
    /\ Forget(c)
    /\ UNCHANGED <<stack, panicking, drops, owned, nextId>>

\* The caller drops a value it got from into_inner: T's destructor runs.
DropOwned(o) ==
    /\ Running /\ o \in owned
    /\ owned' = owned \ {o}
    /\ drops' = [drops EXCEPT ![o.id] = @ + 1]
    /\ last' = Outcome("drop_value", 0, Some(o))
    /\ UNCHANGED <<life, lazy, stack, panicking, invoked, writes, stored, nextId, aborted, reinit, thr>>

\* c.get_or_create(f) with the cell initialised: line 59 is false, line 78 returns.
GocFast(c) ==
    /\ Running /\ Live(c)
    /\ ~needs_init(lazy[c])
    /\ last' = [Outcome("get_or_create", c, Some(deref(lazy[c]))) EXCEPT !.path = "fast"]
    /\ stack' = MarkInnerOk(MarkReent(stack, c), c)
    /\ UNCHANGED <<life, lazy, panicking, invoked, writes, stored, drops, owned, nextId, aborted, reinit, thr>>

\* c.get_or_create(f) with the cell empty: line 59 is true, line 60 calls f.
GocCallInit(c) ==
    /\ Running /\ Live(c)
    /\ needs_init(lazy[c])
    /\ Len(stack) < MaxDepth /\ Invocations < MaxInvoke
    /\ stack' = Append(MarkReent(stack, c), Frame(c))
    /\ invoked' = [invoked EXCEPT ![c] = @ + 1]
    /\ UNCHANGED <<life, lazy, panicking, last, writes, stored, drops, owned, nextId, aborted, reinit, thr>>

\* The running initializer returns a value with content v: lines 60-78 of the
\* innermost get_or_create.
InitReturn(v) ==
    /\ Running /\ stack # << >> /\ nextId <= MaxObjs
    /\ LET c == Top.cell
           o == Obj(nextId, v)
       IN  IF recursive(lazy[c])
           THEN \* line 64: panic!; the local t is dropped by the unwinding
                /\ panicking' = TRUE
                /\ drops' = [drops EXCEPT ![o.id] = @ + 1]
                /\ stack' = Pop
                /\ last' = [Outcome("get_or_create", c, None) EXCEPT
                              !.kind = "panic", !.path = "init", !.fault = "recursive",
                              !.fval = v, !.reent = Top.reent, !.innerOk = Top.innerOk]
                /\ UNCHANGED <<lazy, writes, stored, reinit>>
           ELSE \* lines 71-78
                /\ lazy' = [lazy EXCEPT ![c] = write_and_set(lazy[c], o)]
                /\ writes' = [writes EXCEPT ![c] = @ + 1]
                /\ stored' = [stored EXCEPT ![c] = @ \cup {o}]
                /\ stack' = MarkInnerOk(Pop, c)
                /\ last' = [Outcome("get_or_create", c, Some(deref(lazy'[c]))) EXCEPT
                              !.path = "init", !.fval = v,
                              !.reent = Top.reent, !.innerOk = Top.innerOk]
                /\ reinit' = [reinit EXCEPT ![c] = @ \/ Borrowed_in(Pop, c)]
                /\ UNCHANGED <<panicking, drops>>
    /\ nextId' = nextId + 1
    /\ UNCHANGED <<life, invoked, owned, aborted, thr>>

\* (variant of unwound: the flag was raised before f was called and stays raised)
unwound_flagged(l) == [t |-> l.t, init |-> TRUE]

\* (variant of unwound: the unwinding clears the cell)
unwound_reset(l) == new

\* f() at line 60 exits by unwinding: nothing of get_or_create after it runs.
unwound(l) == l

\* The running initializer panics.
InitPanics ==
    /\ Running /\ stack # << >>
    /\ panicking' = TRUE
    /\ lazy' = [lazy EXCEPT ![Top.cell] = unwound(lazy[Top.cell])]
    /\ stack' = Pop
    /\ last' = [Outcome("get_or_create", Top.cell, None) EXCEPT
                  !.kind = "panic", !.path = "init", !.fault = "init",
                  !.reent = Top.reent, !.innerOk = Top.innerOk]
    /\ aborted' = [aborted EXCEPT ![Top.cell] = @ + 1]
    /\ UNCHANGED <<life, invoked, writes, stored, drops, owned, nextId, reinit, thr>>

\* A panic raised by a call the initializer made is not caught by it: the
\* initializer, and the get_or_create that called it, are unwound in turn.
Unwind ==
    /\ panicking /\ stack # << >>
    /\ lazy' = [lazy EXCEPT ![Top.cell] = unwound(lazy[Top.cell])]
    /\ stack' = Pop
    /\ last' = [Outcome("get_or_create", Top.cell, None) EXCEPT
                  !.kind = "panic", !.path = "init", !.fault = last.fault,
                  !.reent = Top.reent, !.innerOk = Top.innerOk]
    /\ aborted' = [aborted EXCEPT ![Top.cell] = @ + 1]
    /\ UNCHANGED <<life, panicking, invoked, writes, stored, drops, owned, nextId, reinit, thr>>

\* The caller of the panicking call (the enclosing initializer, or main) catches
\* the panic (std::panic::catch_unwind) and goes on.
Catch ==
    /\ panicking
    /\ panicking' = FALSE
    /\ UNCHANGED <<life, lazy, stack, last, invoked, writes, stored, drops, owned, nextId, aborted, reinit, thr>>

Next ==
    \/ New
    \/ \E c \in Cells : Get(c)
    \/ \E c \in Cells : Fmt(c)
    \/ \E c \in Cells : Clone(c)
    \/ \E c \in Cells : IntoInner(c)
    \/ \E c \in Cells : Drop(c)
    \/ \E o \in owned : DropOwned(o)
    \/ \E c \in Cells : GocFast(c)
    \/ \E c \in Cells : GocCallInit(c)
    \/ \E v \in Vals : InitReturn(v)
    \/ InitPanics
    \/ Unwind
    \/ Catch

Spec == Init /\ [][Next]_vars

\* ------------------------------------------------------------- threads
\* The auto traits of the two fields, for a T that is itself Send.
\* UnsafeCell<MaybeUninit<T>> (line 19): Send, not Sync.
UnsafeCell_Send == TRUE
UnsafeCell_Sync == FALSE

\* Cell<bool> (line 20): Send, not Sync.
Cell_Send == TRUE
Cell_Sync == FALSE

\* Lazy<T> has no Send or Sync impl of its own: it has an auto trait exactly when
\* both of its fields have it.
Lazy_Send == UnsafeCell_Send /\ Cell_Send
Lazy_Sync == UnsafeCell_Sync /\ Cell_Sync

\* Thread th may call a &self method of cell c: it owns the cell, or it was given
\* a reference to it, which takes Lazy<T>: Sync.
CanUse(th, c) == th = holder[c] \/ Lazy_Sync

\* std::thread::spawn(move || ...) / a channel send: the cell is moved to thread
\* th, which takes Lazy<T>: Send and a cell that is not borrowed.
SendTo(c, th) ==
    /\ Running /\ stack = << >> /\ Live(c)
    /\ Lazy_Send
    /\ th # holder[c]
    /\ holder' = [holder EXCEPT ![c] = th]
    /\ users' = [users EXCEPT ![c] = @ \cup {th}]
    /\ last' = Outcome("send", c, None)
    /\ UNCHANGED <<life, lazy, stack, panicking, invoked, writes, stored, drops, owned, nextId, aborted, reinit>>

\* Thread th calls c.get().
GetFrom(c, th) ==
    /\ Running /\ stack = << >> /\ Live(c)
    /\ CanUse(th, c)
    /\ users' = [users EXCEPT ![c] = @ \cup {th}]
    /\ last' = Outcome("get", c, get(lazy[c]))
    /\ UNCHANGED <<life, lazy, stack, panicking, invoked, writes, stored, drops, owned, nextId, aborted, reinit, holder>>

NextThreads ==
    \/ Next
    \/ \E c \in Cells, th \in Threads : SendTo(c, th)
    \/ \E c \in Cells, th \in Threads : GetFrom(c, th)

SpecThreads == Init /\ [][NextThreads]_vars

\* ------------------------------------------------------------- properties

\* C1 (memoization).  Once a cell is initialised with value V, no initializer is
\* invoked for it any more (a get_or_create(G) on it does not call G), and every
\* get_or_create on it that returns normally returns V, the value in the slot, and
\* leaves the cell as it is; a call invokes the initializer at most once.
C1_Memoization ==
    [][\A c \in Cells :
        /\ invoked'[c] <= invoked[c] + 1
        /\ (Live(c) /\ lazy[c].init /\ life'[c] = "live") =>
              /\ invoked'[c] = invoked[c]
              /\ (last'.op = "get_or_create" /\ last'.cell = c /\ last'.kind = "ok") =>
                    /\ last'.val = Some(lazy[c].t)
                    /\ lazy'[c] = lazy[c]]_vars

\* C1 witness: a second get_or_create on an initialised cell has returned the stored
\* value on the fast path, after exactly one initializer invocation and one write.
C1_Witness ==
    /\ last.op = "get_or_create" /\ last.path = "fast" /\ last.kind = "ok"
    /\ Live(last.cell)
    /\ last.val = Some(lazy[last.cell].t)
    /\ invoked[last.cell] = 1 /\ writes[last.cell] = 1
    /\ stack = << >>

\* C2 as stated (refuted): a get_or_create whose initializer called get_or_create
\* on the same cell never returns normally.
C2_AnyReentrantCallFaults ==
    (last.op = "get_or_create" /\ last.path = "init" /\ last.reent) => last.kind = "panic"

\* C2 (reentrancy detection), amended.  A get_or_create on an empty cell whose
\* initializer called get_or_create on the same cell, where such an inner call
\* returned normally, ends with a panic and never returns normally; and whenever
\* line 64 raises the fault, the cell is initialised and the call's own value was
\* not returned.
C2_ReentrantInitFaults ==
    /\ (last.op = "get_or_create" /\ last.path = "init" /\ last.innerOk) =>
            /\ last.kind = "panic"
            /\ last.reent
    /\ (last.op = "get_or_create" /\ last.kind = "panic") => last.val = None
    /\ \A i \in 1..Len(stack) : stack[i].innerOk =>
            /\ stack[i].reent
            /\ lazy[stack[i].cell].init

\* C2 witness: the outer call of tests::recursive_init has just panicked at line 64,
\* after the inner call on the same cell returned normally.
C2_Witness ==
    /\ last.op = "get_or_create" /\ last.kind = "panic" /\ last.fault = "recursive"
    /\ last.reent /\ last.innerOk
    /\ panicking /\ stack = << >>

\* C3 (Initialized is terminal).  A cell that is initialised keeps its flag and the
\* value in its slot in every step after which it still exists: get() goes on
\* yielding the same Some(V).
C3_InitializedIsTerminal ==
    [][\A c \in Cells :
        (Live(c) /\ lazy[c].init /\ life'[c] = "live") =>
            /\ lazy'[c].init
            /\ lazy'[c].t = lazy[c].t
            /\ get(lazy'[c]) = get(lazy[c])]_vars

\* C3 witness: get() on a cell yields its value after a get_or_create on it went
\* through a reentrancy fault and a clone of it was made.
C3_Witness ==
    /\ last.op = "get" /\ Live(last.cell) /\ last.val # None
    /\ last.val = get(lazy[last.cell])
    /\ writes[last.cell] = 1 /\ invoked[last.cell] = 2
    /\ \E d \in Cells : d # last.cell /\ Live(d) /\ lazy[d].init

\* C4 (at most one write).  The slot of a cell is written at most once by
\* get_or_create, at most one value is ever stored in a cell, and it is the one
\* the slot holds.
C4_AtMostOneWrite ==
    \A c \in Cells :
        /\ writes[c] <= 1
        /\ Cardinality(stored[c]) <= 1
        /\ Live(c) => (lazy[c].init <=> stored[c] = {lazy[c].t})
        /\ (Live(c) /\ ~lazy[c].init) => (stored[c] = {} /\ writes[c] = 0)

\* C4 witness: a cell written once after three initializer invocations: one that
\* panicked, and a nest of two of which the outer one faulted.
C4_Witness ==
    \E c \in Cells :
        /\ Live(c) /\ writes[c] = 1 /\ invoked[c] = 3
        /\ last.cell = c /\ last.fault = "recursive"

\* C5 (invariant I1).  For every cell that exists, the flag is true exactly when
\* the slot holds a value of T whose destructor has not run.
C5_FlagIffSlotHoldsValue ==
    \A c \in Cells :
        Live(c) =>
            (lazy[c].init <=> (lazy[c].t # Uninit /\ lazy[c].t.id \in Ids
                                /\ drops[lazy[c].t.id] = 0))

\* C5 witness: an initializer is running on a cell that a reentrant call has
\* already initialised (the state the running initializer observes).
C5_Witness ==
    /\ stack # << >> /\ lazy[Top.cell].init /\ Top.innerOk
    /\ \E c \in Cells : Live(c) /\ ~lazy[c].init

\* C6 as stated (refuted): after the initializer of a get_or_create on an empty
\* cell has exited abnormally, the flag of the cell is false and its slot unwritten.
C6_EmptyAfterAbnormalExit ==
    (last.op = "get_or_create" /\ last.kind = "panic" /\ last.fault = "init"
        /\ Live(last.cell)) =>
        (~lazy[last.cell].init /\ lazy[last.cell].t = Uninit)

\* C6 (no silent partial state), amended.  When the initializer of a get_or_create exits
\* by unwinding, the call writes nothing: the cell, its flag and its slot are as
\* they were, so a flag that was false stays false with the slot unwritten.  An
\* empty cell is in the state of a fresh one whatever was attempted on it, and the
\* get_or_create that then completes stores its initializer's value with a single
\* write.
C6_EmptyCell == \A c \in Cells : (Live(c) /\ ~lazy[c].init) => lazy[c] = new

C6_AbnormalExit ==
    (Len(stack') < Len(stack) /\ nextId' = nextId) =>
        /\ last'.op = "get_or_create" /\ last'.kind = "panic" /\ last'.cell = Top.cell
        /\ lazy' = lazy /\ writes' = writes /\ stored' = stored
        /\ ~lazy[Top.cell].init => (~lazy'[Top.cell].init /\ lazy'[Top.cell].t = Uninit)

C6_LaterCall ==
    (Len(stack') < Len(stack) /\ last'.kind = "ok") =>
        /\ ~lazy[Top.cell].init
        /\ lazy'[Top.cell].init
        /\ lazy'[Top.cell].t.v = last'.fval
        /\ writes'[Top.cell] = 1

C6_NoPartialState == []C6_EmptyCell /\ [][C6_AbnormalExit /\ C6_LaterCall]_vars

\* C6 witness: after an initializer panicked on a cell (caught by main), a second
\* get_or_create on the cell ran its initializer and stored its value.
C6_Witness ==
    /\ last.op = "get_or_create" /\ last.path = "init" /\ last.kind = "ok"
    /\ ~last.reent /\ stack = << >>
    /\ Live(last.cell) /\ invoked[last.cell] = 2 /\ writes[last.cell] = 1
    /\ lazy[last.cell].t.v = last.fval

\* C7 (first initialization).  When a get_or_create has returned normally after
\* running its initializer, which returned V, the flag is true, the slot holds V,
\* the reference returned is to the stored value and get() yields Some of it.
C7_FirstInit ==
    (last.op = "get_or_create" /\ last.path = "init" /\ last.kind = "ok"
        /\ Live(last.cell)) =>
        /\ lazy[last.cell].init
        /\ lazy[last.cell].t.id \in Ids
        /\ lazy[last.cell].t.v = last.fval
        /\ last.val = Some(lazy[last.cell].t)
        /\ get(lazy[last.cell]) = last.val

\* C7 witness: tests::get_or_create, the first call on a fresh cell, with an
\* initializer that returns 3 without touching the cell.
C7_Witness ==
    /\ last.op = "get_or_create" /\ last.path = "init" /\ last.kind = "ok"
    /\ ~last.reent /\ last.fval = 3 /\ stack = << >>
    /\ Live(last.cell) /\ invoked[last.cell] = 1
    /\ get(lazy[last.cell]) = Some(Obj(1, 3))

\* C8 (empty by default).  A cell in which no value was ever placed (it was made
\* by new(), and no get_or_create on it has completed its write) has its flag
\* false, and get() on it returns None.
C8_EmptyByDefault ==
    /\ \A c \in Cells :
        (Live(c) /\ stored[c] = {} /\ writes[c] = 0) =>
            (~lazy[c].init /\ get(lazy[c]) = None)
    /\ last.op = "new" => (Live(last.cell) /\ ~lazy[last.cell].init)
    /\ (last.op = "get" /\ Live(last.cell) /\ writes[last.cell] = 0
           /\ stored[last.cell] = {}) => last.val = None

\* C8 witness: get() returned None on a cell made by new() while an initializer
\* was running for it.
C8_Witness ==
    /\ last.op = "get" /\ last.val = None
    /\ stack # << >> /\ Top.cell = last.cell /\ last.cell = 2
    /\ invoked[last.cell] = 1

\* C9 (consume semantics).  into_inner on an initialised cell holding V returns
\* Some(V), which the caller then owns, with no destructor run; on an empty cell
\* it returns None; the cell is gone afterwards, for good, and no operation acts
\* on a cell that is gone.
C9_IntoInnerStep ==
    \A c \in Cells :
        (Live(c) /\ life'[c] = "gone" /\ last'.op = "into_inner") =>
            /\ last'.cell = c
            /\ ~Borrowed(c)
            /\ last'.val = IF lazy[c].init THEN Some(lazy[c].t) ELSE None
            /\ lazy[c].init => (lazy[c].t \in owned' /\ lazy[c].t.id \in Ids)
            /\ ~lazy[c].init => owned' = owned
            /\ drops' = drops

C9_GoneForGood ==
    \A c \in Cells :
        life[c] = "gone" =>
            /\ life'[c] = "gone"
            /\ last' # last => (last'.cell # c /\ last'.made # c)
            /\ \A i \in 1..Len(stack') : stack'[i].cell # c

C9_Consume == [][C9_IntoInnerStep /\ C9_GoneForGood]_vars

\* C9 witness: into_inner has returned Some(V) for an initialised cell; the cell
\* is gone and the caller owns V.
C9_Witness ==
    /\ last.op = "into_inner" /\ last.val # None
    /\ life[last.cell] = "gone"
    /\ last.val[1] \in owned /\ drops[last.val[1].id] = 0

\* C10 (duplicate independence).  clone() of an initialised cell holding V makes a
\* new initialised cell holding a value equal to V that is another object, and
\* clone() of an empty cell makes an empty cell, the source being left as it is;
\* no two cells hold the same object, no cell holds an object the caller owns or
\* has dropped, and a step that changes one cell changes no other cell.
C10_NoSharing ==
    /\ \A c, d \in Cells :
        (c # d /\ Live(c) /\ Live(d) /\ lazy[c].init /\ lazy[d].init) =>
            lazy[c].t.id # lazy[d].t.id
    /\ \A c \in Cells :
        (Live(c) /\ lazy[c].init) =>
            (lazy[c].t \notin owned /\ drops[lazy[c].t.id] = 0)

C10_CloneStep ==
    \A d \in Cells :
        (life[d] = "unborn" /\ life'[d] = "live" /\ last'.op = "clone") =>
            /\ last'.made = d /\ last'.cell # d /\ Live(last'.cell)
            /\ lazy'[last'.cell] = lazy[last'.cell]
            /\ lazy'[d].init = lazy[last'.cell].init
            /\ lazy[last'.cell].init =>
                  /\ lazy'[d].t.v = lazy[last'.cell].t.v
                  /\ lazy'[d].t.id # lazy[last'.cell].t.id
            /\ ~lazy[last'.cell].init => lazy'[d] = new
            /\ last'.val = get(lazy'[d])

C10_OneCellPerStep ==
    \A c, d \in Cells :
        (c # d /\ Live(c) /\ Live(d) /\ (lazy'[c] # lazy[c] \/ life'[c] # life[c])) =>
            (lazy'[d] = lazy[d] /\ life'[d] = life[d])

C10_CloneIndependent == []C10_NoSharing /\ [][C10_CloneStep /\ C10_OneCellPerStep]_vars

\* C10 witness: the value taken out of a cell by into_inner has been dropped while
\* the clone of that cell still holds its own, equal value.
C10_Witness ==
    /\ last.op = "drop_value" /\ drops[last.val[1].id] = 1
    /\ \E d \in Cells :
        /\ Live(d) /\ lazy[d].init
        /\ lazy[d].t.v = last.val[1].v /\ lazy[d].t.id # last.val[1].id
        /\ writes[d] = 0

\* C11 (read-only operations are pure).  A get(), a clone() or a fmt() that has
\* just been made on a cell, empty or initialised, has invoked no initializer,
\* started no get_or_create, written no slot, and left the flag and the slot of
\* the cell it was called on, and the cell itself, as they were.
C11_ReadStep ==
    (last' # last /\ last'.op \in {"get", "clone", "fmt"}) =>
        /\ last'.kind = "ok"
        /\ lazy'[last'.cell] = lazy[last'.cell]
        /\ life'[last'.cell] = life[last'.cell]
        /\ invoked' = invoked /\ writes' = writes /\ aborted' = aborted
        /\ stack' = stack /\ panicking' = panicking
        /\ stored'[last'.cell] = stored[last'.cell]
        /\ last'.op = "get" => (last'.val = get(lazy[last'.cell]) /\ lazy' = lazy)
        /\ last'.op = "fmt" => (last'.text = fmt(lazy[last'.cell]) /\ lazy' = lazy)

C11_ReadOnlyPure == [][C11_ReadStep]_vars

\* C11 witness: an initialised cell has just been cloned; it still holds its value
\* after its single initializer invocation, and the clone holds an equal value.
C11_Witness ==
    /\ last.op = "clone" /\ Live(last.cell) /\ Live(last.made)
    /\ lazy[last.cell].init /\ lazy[last.made].init
    /\ invoked[last.cell] = 1 /\ invoked[last.made] = 0
    /\ writes[last.cell] = 1 /\ writes[last.made] = 0

\* C12 as stated (refuted by the code): when a cell goes out of scope, the
\* destructor of the value it holds runs exactly once, and no destructor runs for
\* an empty cell.
C12_DropStep ==
    \A c \in Cells :
        (Live(c) /\ life'[c] = "gone" /\ last'.op = "drop") =>
            IF lazy[c].init
            THEN drops' = [drops EXCEPT ![lazy[c].t.id] = 1]
            ELSE drops' = drops

C12_DropRunsDestructor == [][C12_DropStep]_vars

\* C13 (no double drop).  The destructor of a value runs at most once; a value
\* whose destructor has run is held by no cell and owned by no caller, and a value
\* the caller owns is in no cell.
C13_NoDoubleDrop ==
    /\ \A i \in Ids : drops[i] <= 1
    /\ \A i \in Ids : drops[i] > 0 => i < nextId
    /\ \A o \in owned : drops[o.id] = 0
    /\ \A c \in Cells :
        (Live(c) /\ lazy[c].init) => (drops[lazy[c].t.id] = 0 /\ lazy[c].t \notin owned)

\* C13 witness: tests::double_drop.  A cell was initialised and cloned, and both
\* cells were dropped (no destructor ran twice); the program then went on.
C13_Witness ==
    /\ life[1] = "gone" /\ life[2] = "gone"
    /\ last.op = "drop" /\ last.cell = 2 /\ last.val # None
    /\ nextId = 3
    /\ \A i \in Ids : drops[i] <= 1

\* C14 as stated (refuted by the code): a cell is neither shared with nor sent to
\* another thread, so all operations on a cell are made by one thread, the only
\* one ever to hold it.
C14_SingleThread ==
    \A c \in Cells : Live(c) => (Cardinality(users[c]) <= 1 /\ users[c] = {holder[c]})

\* C15 (invariant I3).  Whenever an operation reads the slot as a T (get,
\* into_inner, clone and fmt when they yield a value, get_or_create when it returns
\* its reference) the flag of the cell is true at that moment and what is read is a
\* value, not uninitialised memory; every normal return of get_or_create, on
\* either path, happens with the flag true.
C15_ReadStep ==
    last' # last =>
        /\ (last'.op \in {"get", "into_inner"} /\ last'.val # None) =>
              /\ lazy[last'.cell].init
              /\ last'.val = Some(lazy[last'.cell].t)
              /\ last'.val[1] # Uninit
        /\ (last'.op = "clone" /\ last'.val # None) =>
              /\ lazy[last'.cell].init
              /\ lazy[last'.cell].t # Uninit
        /\ (last'.op = "fmt" /\ last'.text # fmt(new)) => lazy[last'.cell].init
        /\ (last'.op = "get_or_create" /\ last'.kind = "ok") =>
              /\ lazy'[last'.cell].init
              /\ last'.val = Some(lazy'[last'.cell].t)
              /\ last'.val[1] # Uninit
              /\ last'.path = "fast" => lazy[last'.cell].init

C15_ReadsOnlyInitialised == [][C15_ReadStep]_vars

\* C15 witness: a get_or_create made from a running initializer of the same cell
\* has returned on the fast path, reading the slot a reentrant call had written.
C15_Witness ==
    /\ last.op = "get_or_create" /\ last.path = "fast" /\ last.kind = "ok"
    /\ Borrowed(last.cell) /\ lazy[last.cell].init
    /\ last.val = Some(lazy[last.cell].t)

\* C16 (when the reentrancy fault is raised).  A get_or_create runs its
\* initializer only on a cell that is empty at entry; when the initializer
\* returns, the call panics with the reentrancy fault if the flag is true and
\* returns normally if it is false.  It is the only panic the cell's own code
\* raises: any other panic starts in an initializer, and get, clone, fmt,
\* into_inner, new and drop always return normally.
C16_InitializerReturns ==
    (Len(stack') < Len(stack) /\ nextId' = nextId + 1) =>
        /\ last'.op = "get_or_create" /\ last'.cell = Top.cell
        /\ lazy[Top.cell].init <=> (last'.kind = "panic" /\ last'.fault = "recursive")
        /\ ~lazy[Top.cell].init <=> last'.kind = "ok"
        /\ panicking' <=> lazy[Top.cell].init

C16_PanicStarts ==
    (~panicking /\ panicking') =>
        /\ Len(stack') < Len(stack)
        /\ last'.op = "get_or_create" /\ last'.kind = "panic"
        /\ \/ last'.fault = "recursive" /\ nextId' = nextId + 1 /\ lazy[Top.cell].init
           \/ last'.fault = "init" /\ nextId' = nextId

C16_OtherSteps ==
    /\ Len(stack') > Len(stack) => ~lazy[stack'[Len(stack')].cell].init
    /\ (last' # last /\ last'.op # "get_or_create") => (last'.kind = "ok" /\ ~panicking')
    /\ (last' # last /\ last'.fault = "recursive" /\ panicking) => last.fault = "recursive"

C16_FaultExactly == [][C16_InitializerReturns /\ C16_PanicStarts /\ C16_OtherSteps]_vars

\* C16 witness: a get_or_create has returned normally although its initializer
\* called get_or_create on the same cell, because that attempt did not initialise
\* the cell.
C16_Witness ==
    /\ last.op = "get_or_create" /\ last.path = "init" /\ last.kind = "ok"
    /\ last.reent /\ ~last.innerOk
    /\ ~panicking /\ aborted[last.cell] = 1 /\ invoked[last.cell] = 2

\* C17 as stated (refuted): with no reentrant initialization, once get_or_create
\* has been called on a cell, exactly one initializer invocation has happened on
\* it, calls that follow an abnormal exit included (stated for the moment a call
\* that ran its initializer and made no reentrant call has returned to main).
C17_ExactlyOneInvocation ==
    (last.op = "get_or_create" /\ last.path = "init" /\ last.kind = "ok" /\ ~last.reent
        /\ stack = << >> /\ Live(last.cell) /\ ~reinit[last.cell]) =>
        invoked[last.cell] = 1

\* C17 (initializer invocation count), amended.  With no reentrant initialization
\* of a cell, every initializer invoked for it has stored its value, has exited
\* abnormally, or is still running; no initializer runs once the cell is
\* initialised; so once a get_or_create has stored a value, the invocations are
\* one plus the number of initializers that exited abnormally.
C17_InvocationCount ==
    \A c \in Cells :
        (Live(c) /\ ~reinit[c]) =>
            /\ invoked[c] = writes[c] + aborted[c] + FramesOf(c)
            /\ writes[c] <= 1
            /\ lazy[c].init => FramesOf(c) = 0
            /\ writes[c] = 1 => invoked[c] = 1 + aborted[c]

\* C17 witness: a cell initialised by its second get_or_create, the initializer of
\* the first having panicked: two invocations, no reentrant call.
C17_Witness ==
    /\ last.op = "get_or_create" /\ last.path = "init" /\ last.kind = "ok" /\ ~last.reent
    /\ stack = << >> /\ Live(last.cell) /\ ~reinit[last.cell]
    /\ invoked[last.cell] = 2 /\ aborted[last.cell] = 1 /\ writes[last.cell] = 1

\* C18 (state after a reentrancy fault).  When a get_or_create made from within a
\* running initializer of the same cell stores its value, the slot holds that
\* inner value; the outer call, whose initializer returns afterwards, faults
\* without touching the cell: the cell stays initialised with the inner value,
\* the outer initializer's value is never written into the slot (it is dropped by
\* the unwinding), and a later get() yields the inner value.
C18_InnerValueKept ==
    \A c \in Cells :
        (Live(c) /\ reinit[c]) =>
            /\ lazy[c].init
            /\ writes[c] = 1
            /\ stored[c] = {lazy[c].t}

C18_InnerWrites ==
    (Len(stack') < Len(stack) /\ nextId' = nextId + 1 /\ last'.kind = "ok"
        /\ Borrowed_in(stack', Top.cell)) =>
        /\ lazy'[Top.cell] = [t |-> Obj(nextId, last'.fval), init |-> TRUE]
        /\ reinit'[Top.cell]

C18_FaultStep ==
    (Len(stack') < Len(stack) /\ nextId' = nextId + 1 /\ last'.fault = "recursive") =>
        /\ reinit[Top.cell] /\ lazy[Top.cell].init
        /\ lazy' = lazy /\ stored' = stored /\ writes' = writes
        /\ lazy[Top.cell].t.id < nextId
        /\ Obj(nextId, last'.fval) \notin stored'[Top.cell]
        /\ drops'[nextId] = 1 /\ Obj(nextId, last'.fval) \notin owned'
        /\ get(lazy'[Top.cell]) = Some(lazy[Top.cell].t)

C18_LaterGet ==
    (last' # last /\ last'.op = "get" /\ reinit[last'.cell]) =>
        /\ last'.val = Some(lazy[last'.cell].t)
        /\ stored[last'.cell] = {lazy[last'.cell].t}
        /\ lazy' = lazy

C18_StateAfterFault ==
    []C18_InnerValueKept /\ [][C18_InnerWrites /\ C18_FaultStep /\ C18_LaterGet]_vars

\* C18 witness: main reads, with get(), a cell on which two initializers ran: the
\* inner one stored its value 3, the outer one returned 0 and faulted; get()
\* yields the inner value and the outer value has been dropped.
C18_Witness ==
    /\ last.op = "get" /\ last.cell = 1 /\ stack = << >> /\ ~panicking
    /\ invoked[1] = 2 /\ writes[1] = 1 /\ aborted[1] = 0 /\ reinit[1]
    /\ last.val = Some(Obj(1, 3)) /\ lazy[1] = [t |-> Obj(1, 3), init |-> TRUE]
    /\ drops[2] = 1 /\ drops[1] = 0

\* C19 as stated (refuted): whenever a get_or_create made from within the
\* initializer of a call on the same cell has returned normally, the enclosing
\* call ends with the reentrancy fault.
C19_EnclosingEndsWithFault ==
    (last.op = "get_or_create" /\ last.path = "init" /\ last.innerOk) =>
        (last.kind = "panic" /\ last.fault = "recursive")

\* C19 (nested reentrancy), amended.  In a nest of get_or_create calls on one
\* cell, a call returns normally only if no call made from within its initializer
\* has, and then it is the one write of the slot so far.  A call that encloses
\* one that returned normally never writes and never returns normally: it ends
\* with the reentrancy fault when its initializer returns a value (whether or not
\* it caught an inner fault) and when a reentrancy fault propagates through it;
\* the only other way it ends is a panic started by an initializer.
C19_EnclosedReturned ==
    (Len(stack') < Len(stack) /\ Top.innerOk) =>
        /\ last'.op = "get_or_create" /\ last'.cell = Top.cell /\ last'.innerOk
        /\ last'.kind = "panic" /\ panicking'
        /\ lazy' = lazy /\ writes' = writes /\ stored' = stored
        /\ nextId' # nextId => last'.fault = "recursive"
        /\ (panicking /\ last.fault = "recursive") => last'.fault = "recursive"
        /\ last'.fault # "recursive" => last'.fault = "init"

C19_NormalReturn ==
    (Len(stack') < Len(stack) /\ last'.kind = "ok") =>
        /\ ~Top.innerOk
        /\ writes[Top.cell] = 0 /\ writes'[Top.cell] = 1
        /\ \A i \in 1..Len(stack') :
              stack'[i].cell = Top.cell => stack'[i].innerOk

C19_OneWritePerNest ==
    \A c \in Cells : (Live(c) /\ Borrowed(c)) => writes[c] <= 1

C19_NestedReentrancy ==
    []C19_OneWritePerNest /\ [][C19_EnclosedReturned /\ C19_NormalReturn]_vars

\* C19 witness: a nest of depth 3 on cell 1 has ended.  The innermost call stored
\* its value; the middle call returned a value and faulted; the outermost
\* initializer caught that fault, returned a value and faulted in turn.
C19_Witness ==
    /\ stack = << >> /\ last.op = "get_or_create" /\ last.cell = 1
    /\ last.kind = "panic" /\ last.fault = "recursive" /\ last.innerOk
    /\ invoked[1] = 3 /\ writes[1] = 1 /\ aborted[1] = 0
    /\ drops[2] = 1 /\ drops[3] = 1 /\ lazy[1].init /\ lazy[1].t.id = 1

\* C20 (reading during initialization).  While the initializer of a get_or_create
\* on a cell is running and no get_or_create has been called on that cell from
\* within it, get() on the cell returns None and clone() makes an empty cell;
\* neither raises a fault nor changes the cell or the call in progress; and when
\* the initializer returns, the get_or_create completes normally, storing and
\* returning the initializer's value.
C20_InitializingOnly(c) ==
    \E i \in 1..Len(stack) : stack[i].cell = c /\ ~stack[i].reent

C20_ReadStep ==
    (last' # last /\ last'.op \in {"get", "clone"} /\ C20_InitializingOnly(last'.cell)) =>
        /\ ~lazy[last'.cell].init
        /\ last'.val = None /\ last'.kind = "ok" /\ last'.fault = ""
        /\ ~panicking' /\ stack' = stack
        /\ lazy'[last'.cell] = lazy[last'.cell]
        /\ last'.op = "clone" =>
              /\ life'[last'.made] = "live" /\ lazy'[last'.made] = new
              /\ stored'[last'.made] = {} /\ nextId' = nextId

C20_Completes ==
    (Len(stack') < Len(stack) /\ nextId' = nextId + 1 /\ ~Top.reent) =>
        /\ last'.op = "get_or_create" /\ last'.cell = Top.cell
        /\ last'.kind = "ok" /\ ~panicking'
        /\ ~lazy[Top.cell].init
        /\ lazy'[Top.cell] = [t |-> Obj(nextId, last'.fval), init |-> TRUE]
        /\ last'.val = Some(Obj(nextId, last'.fval))

C20_ReadDuringInit == [][C20_ReadStep /\ C20_Completes]_vars

\* C20 witness: the running initializer of cell 1, which has not called
\* get_or_create, has cloned cell 1: the clone is a live, empty cell and cell 1
\* is still empty with its initializer running.
C20_Witness ==
    /\ last.op = "clone" /\ last.cell = 1 /\ last.val = None /\ last.kind = "ok"
    /\ last.inInit
    /\ Len(stack) = 1 /\ Top.cell = 1 /\ ~Top.reent /\ ~panicking
    /\ Live(last.made) /\ lazy[last.made] = new /\ lazy[1] = new
    /\ invoked[1] = 1 /\ writes[1] = 0

====
